---- MODULE Spec2Model ----
(***************************************************************************)
(* Model of fetch_daily_sails_git.py: the paginated fetch of one day's     *)
(* sales for two tokens (Food, Bar), the flattening of the nested sales    *)
(* into one row per line item, and the existence-gated write of            *)
(* <archive>/<date>_sales.csv.                                             *)
(*                                                                         *)
(* JSON values are cells [t, v]: t is the kind of the value and v the      *)
(* number it stands for (amounts are in pence, so that sums are exact).    *)
(* A Python dict is a record or function; d.get(k, default) is Get.        *)
(***************************************************************************)
EXTENDS Integers, Sequences, FiniteSets, TLC

\* ------------------------------------------------------------------ bounds
MaxRecords == 3     \* longest list an upstream source holds for the date
MaxLimit == 2       \* page sizes 1..MaxLimit are tried besides the default
MaxSales == 2       \* longest list handed to the flattener on its own

\* ------------------------------------------------------------- JSON values
Num(n) == [t |-> "num", v |-> n]        \* a JSON number
Str(n) == [t |-> "numstr", v |-> n]     \* a string that spells the number n
Ts(n) == [t |-> "tsstr", v |-> n]       \* a string that spells the instant n
Text == [t |-> "text", v |-> 0]         \* any other string, such as "N/A"
Null == [t |-> "null", v |-> 0]         \* JSON null, Python None
NaN == [t |-> "nan", v |-> 0]           \* pandas' null of a numeric column
NaT == [t |-> "nat", v |-> 0]           \* pandas' null of a datetime column
Float(n) == [t |-> "float", v |-> n]    \* a Python/numpy float
Datetime(n) == [t |-> "datetime", v |-> n]
Raised == [t |-> "raised", v |-> 0]     \* the conversion raised an exception

\* dict.get(key, default)
Get(d, k, default) == IF k \in DOMAIN d THEN d[k] ELSE default

\* float(x): numbers and numeric strings convert, anything else raises
\* (ValueError for a non-numeric string, TypeError for None).
PyFloat(x) ==
  IF x.t \in {"num", "numstr", "float"} THEN Float(x.v) ELSE Raised

\* pd.to_numeric(column, errors='coerce'), cell by cell: what does not parse
\* as a number becomes NaN.
ToNumeric(x) ==
  IF x.t \in {"num", "numstr", "float"} THEN Float(x.v) ELSE NaN

\* pd.to_datetime(column), cell by cell, with the default errors='raise':
\* None becomes NaT, a string that is no timestamp raises.
ToDatetime(x) ==
  IF x.t \in {"tsstr", "datetime"} THEN Datetime(x.v)
  ELSE IF x.t \in {"null", "nat", "nan"} THEN NaT
  ELSE Raised

\* ------------------------------------------------------------- the flattener
numeric_item_columns ==
  {"quantity", "price_inc_vat_per_item", "vat_rate",
   "line_total_after_line_discount", "line_subtotal_after_line_discount",
   "line_vat_after_line_discount", "line_total_after_discount",
   "line_subtotal_after_discount", "line_vat_after_discount",
   "discount_amount"}

numeric_columns == numeric_item_columns \cup {"payment_total"}

datetime_columns == {"sales_date_time", "created_at"}

\* Item columns copied by item.get(column) under the same name.
item_columns == numeric_item_columns \cup {"product_id", "created_at"}

\* sale.get('sales_details', {}).get('sales_items', [])
SalesItems(sale) ==
  Get(Get(sale, "sales_details", [none |-> Null]), "sales_items", <<>>)

\* sale.get('sales_payments', {}) as the sequence of its (key, value) pairs,
\* in the dict's iteration order.
SalesPayments(sale) == Get(sale, "sales_payments", <<>>)

\* list(sale.get('sales_payments', {}).keys()); ';'.join keeps this order.
PaymentMethods(sale) ==
  [i \in 1..Len(SalesPayments(sale)) |-> SalesPayments(sale)[i].k]

\* The sum with p.get('payment_total') in place of p.get('payment_total', 0).
RECURSIVE SumFloatsNoDefault(_)
SumFloatsNoDefault(ps) ==
  IF ps = <<>> THEN Float(0)
  ELSE LET x == PyFloat(Get(ps[1].v, "payment_total", Null))
           rest == SumFloatsNoDefault(Tail(ps))
       IN IF x = Raised \/ rest = Raised THEN Raised ELSE Float(x.v + rest.v)

\* sum(float(p.get('payment_total', 0)) for p in ....values()): Raised as soon
\* as one float() raises.
RECURSIVE SumFloats(_)
SumFloats(ps) ==
  IF ps = <<>> THEN Float(0)
  ELSE LET x == PyFloat(Get(ps[1].v, "payment_total", Num(0)))
           rest == SumFloats(Tail(ps))
       IN IF x = Raised \/ rest = Raised THEN Raised ELSE Float(x.v + rest.v)

PaymentTotal(sale) == SumFloats(SalesPayments(sale))

\* The row dict built for one (sale, item) pair.  The sale-level and
\* item-level columns that are copied and never converted are represented by
\* sale_id, item_id, product_id and sale_total.
Row(sale, item) ==
  [c \in {"sale_id", "sales_date_time", "item_id", "sale_total",
          "payment_methods", "payment_total"} \cup item_columns |->
     CASE c = "sale_id" -> Get(sale, "id", Null)
       [] c = "sales_date_time" -> Get(sale, "sales_date_time", Null)
       [] c = "item_id" -> Get(item, "id", Null)
       [] c = "sale_total" ->
            Get(Get(sale, "sales_details", [none |-> Null]), "total", Null)
       [] c = "payment_methods" -> PaymentMethods(sale)
       [] c = "payment_total" -> PaymentTotal(sale)
       [] OTHER -> Get(item, c, Null)]

\* The inner loop: one row per item of the sale.
SaleRows(sale) ==
  [j \in 1..Len(SalesItems(sale)) |-> Row(sale, SalesItems(sale)[j])]

\* The outer loop: rows of all sales, in order.
RECURSIVE BuildRows(_)
BuildRows(sales_list) ==
  IF sales_list = <<>> THEN <<>>
  ELSE SaleRows(sales_list[1]) \o BuildRows(Tail(sales_list))

\* The type conversions applied to the assembled frame, row by row.
ConvertRow(row) ==
  [c \in DOMAIN row |->
     IF c \in datetime_columns THEN ToDatetime(row[c])
     ELSE IF c \in numeric_columns THEN ToNumeric(row[c])
     ELSE row[c]]

Failure(e) == [err |-> e, rows |-> <<>>]

\* convert_sales_api_to_dataframe(json_data).  The result is the frame's rows,
\* or the exception that ended the call.
convert_sales_api_to_dataframe(json_data) ==
  IF ~(json_data.type = "list"
       \/ (json_data.type = "dict" /\ "data" \in DOMAIN json_data))
  THEN Failure("ValueError: Expected dict with 'data' key or list of sales")
  ELSE
  LET sales_list == IF json_data.type = "list" THEN json_data.items
                    ELSE json_data.data
      rows == BuildRows(sales_list)
  IN IF sales_list = <<>> THEN Failure("ValueError: No sales data found")
     ELSE IF \E i \in 1..Len(rows) : rows[i]["payment_total"] = Raised
     THEN Failure("float() raised")
     \* pd.DataFrame([]) has no columns: df['sales_date_time'] raises
     ELSE IF rows = <<>> THEN Failure("KeyError: 'sales_date_time'")
     ELSE IF \E i \in 1..Len(rows) :
               ToDatetime(rows[i]["sales_date_time"]) = Raised
     THEN Failure("to_datetime raised on sales_date_time")
     ELSE IF \E i \in 1..Len(rows) : ToDatetime(rows[i]["created_at"]) = Raised
     THEN Failure("to_datetime raised on created_at")
     ELSE [err |-> "none", rows |-> [i \in 1..Len(rows) |-> ConvertRow(rows[i])]]

\* ------------------------------------------------------------------ inputs
\* A sale is described by a shape: how many line items it has, its
\* sales_date_time, a fault injected into its first item, and its payments.
NoFault == [col |-> "none", val |-> Null]

ItemOK(n) ==
  [c \in item_columns \cup {"id"} |->
     CASE c = "id" -> Num(n)
       [] c = "product_id" -> Num(5)
       [] c = "created_at" -> Ts(2)
       [] c = "quantity" -> Str(2)
       [] c = "vat_rate" -> Num(20)
       [] OTHER -> Str(350)]

\* The item with one key holding another value; a created_at of Null is
\* given as a missing key, which item.get() reads as None as well.
ItemWith(n, fault) ==
  IF fault.col = "none" THEN ItemOK(n)
  ELSE IF fault.val = Null /\ fault.col = "created_at"
  THEN [c \in DOMAIN ItemOK(n) \ {fault.col} |-> ItemOK(n)[c]]
  ELSE [ItemOK(n) EXCEPT ![fault.col] = fault.val]

Pay(k, amount) == [k |-> k, v |-> [payment_total |-> amount]]
PayNoAmount(k) == [k |-> k, v |-> [payment_type |-> Text]]

PayKinds == {"cash", "cash_card", "empty", "absent", "no_amount", "text", "null"}

Payments(kind) ==
  CASE kind = "cash" -> <<Pay("cash", Str(700))>>
    [] kind = "cash_card" -> <<Pay("cash", Str(300)), Pay("card", Num(400))>>
    [] kind = "no_amount" -> <<Pay("cash", Num(700)), PayNoAmount("voucher")>>
    [] kind = "text" -> <<Pay("cash", Text)>>
    [] kind = "null" -> <<Pay("cash", Null)>>
    [] OTHER -> <<>>

MkSale(shape, n) ==
  LET items == [j \in 1..shape.items |->
                  ItemWith(10 * n + j, IF j = 1 THEN shape.fault ELSE NoFault)]
      core == [id |-> Num(n),
               sales_date_time |-> shape.date,
               sales_details |-> [sales_items |-> items, total |-> Str(700)]]
  IN IF shape.pay = "absent" THEN core
     ELSE [c \in DOMAIN core \cup {"sales_payments"} |->
             IF c = "sales_payments" THEN Payments(shape.pay) ELSE core[c]]

BaseShape == [items |-> 1, date |-> Ts(1), fault |-> NoFault, pay |-> "cash"]

\* Shapes handed to the flattener on its own: the base sale with one thing
\* changed at a time.
FlattenShapes ==
  {[BaseShape EXCEPT !.items = k] : k \in 0..2}
  \cup {[BaseShape EXCEPT !.date = d] : d \in {Text, Null}}
  \cup {[BaseShape EXCEPT !.fault = [col |-> c, val |-> Text]] :
          c \in numeric_item_columns \cup {"created_at"}}
  \cup {[BaseShape EXCEPT !.fault = [col |-> c, val |-> Null]] :
          c \in {"quantity", "created_at"}}
  \cup {[BaseShape EXCEPT !.pay = k] : k \in PayKinds}
  \cup {[BaseShape EXCEPT !.pay = "text", !.items = 0]}

\* The list of sales of the given shapes.  Sale ids are the positions in the
\* list, hence distinct.
SalesOf(shapes) == [i \in 1..Len(shapes) |-> MkSale(shapes[i], i)]

\* m sales of which the i-th has i % 3 line items: lists of one, two and
\* three sales hold sales with one, two and no items.
GoodList(m) == [i \in 1..m |-> MkSale([BaseShape EXCEPT !.items = i % 3], i)]

\* What an upstream source may hold for the date: nothing; a good list; one
\* sale without items; one sale with an unparsable sales_date_time; one sale
\* with an unparsable payment amount.
UpstreamLists ==
  {GoodList(m) : m \in 0..MaxRecords}
  \cup {<<MkSale([BaseShape EXCEPT !.items = 0], 1)>>,
        <<MkSale([BaseShape EXCEPT !.date = Text], 1)>>,
        <<MkSale([BaseShape EXCEPT !.pay = "text"], 1)>>}

\* What the upstream may hold while two invocations overlap.
OverlapLists == {GoodList(1), GoodList(2)}

AsList(s) == [type |-> "list", items |-> s]
AsDict(s) == [type |-> "dict", data |-> s]

\* The arguments of a direct call of the flattener: a list of up to MaxSales
\* sales, bare or under the 'data' key of a dict, or something else.
ShapeLists == UNION {[1..m -> FlattenShapes] : m \in 0..MaxSales}

\* ------------------------------------------------------------- the program
Procs == {1, 2}                \* invocations of the program for the one date
default_limit == 50            \* limit=50 in fetch_all_sales_for_token

\* limit is a parameter of fetch_all_sales_for_token.  main() always passes
\* the default; the small page sizes make fetches of several pages happen
\* against upstream lists of a few sales.
Limits == (1..MaxLimit) \cup {default_limit}

\* What the endpoint may answer to one GET: a non-success status, a body
\* that is no JSON, or JSON that is a list, a dict with a 'data' key, a dict
\* without one (such as an error message), or a number.
Responses == {"http_error", "not_json", "list", "dict", "dict_nodata", "number"}

VARIABLES
  limit,          \* the page size of fetch_all_sales_for_token
  served,         \* per run: the sales each token's endpoint holds for the date
  file,           \* <archive>/<date>_sales.csv: whether it exists, and its rows
  pc,             \* per run: where main() stands
  all_sales,      \* per run: the list fetch_all_sales_for_token accumulates
  offset,         \* per run: the next offset to request
  batch,          \* per run: the page last received
  log,            \* per run: the (offset, page length) of each request so far
  clean,          \* per run: every answer so far was a list or a dict with data
  food_df,        \* per run: the Food frame
  full_df,        \* per run: the concatenated frame
  stdout,         \* per run: the status line printed
  exit_code,      \* per run: "none" while running, then "zero" or "nonzero"
  error,          \* per run: the exception that ended it, or "none"
  existed,        \* per run: whether the file existed when the run started
  json_data,      \* the argument of a direct call of the flattener
  df              \* the result of that call

vars == <<limit, served, file, pc, all_sales, offset, batch, log, clean,
          food_df, full_df, stdout, exit_code, error, existed, json_data, df>>

NoFile == [exists |-> FALSE, rows |-> <<>>]
NotServed == [Food |-> <<>>, Bar |-> <<>>]
NotCalled == [err |-> "not called", rows |-> <<>>]

Min(a, b) == IF a < b THEN a ELSE b

\* The records [off, off + lim) of the upstream list.
Slice(s, off, lim) == SubSeq(s, off + 1, Min(off + lim, Len(s)))

\* df["Area"] = area
Tag(rows, area) ==
  [i \in 1..Len(rows) |->
     [c \in DOMAIN rows[i] \cup {"Area"} |->
        IF c = "Area" THEN area ELSE rows[i][c]]]

\* DataFrame.to_csv: a null cell is written as an empty field.
CsvCell(x) == IF x.t \in {"nan", "nat", "null"} THEN [t |-> "empty", v |-> 0] ELSE x

to_csv(rows) ==
  [i \in 1..Len(rows) |->
     [c \in DOMAIN rows[i] |->
        IF c \in {"Area", "payment_methods"} THEN rows[i][c]
        ELSE CsvCell(rows[i][c])]]

ProgramInit ==
  /\ limit \in Limits
  /\ served = [p \in Procs |-> NotServed]
  /\ file = NoFile
  /\ pc = [p \in Procs |-> "idle"]
  /\ all_sales = [p \in Procs |-> <<>>]
  /\ offset = [p \in Procs |-> 0]
  /\ batch = [p \in Procs |-> <<>>]
  /\ log = [p \in Procs |-> <<>>]
  /\ clean = [p \in Procs |-> TRUE]
  /\ food_df = [p \in Procs |-> <<>>]
  /\ full_df = [p \in Procs |-> <<>>]
  /\ stdout = [p \in Procs |-> "none"]
  /\ exit_code = [p \in Procs |-> "none"]
  /\ error = [p \in Procs |-> "none"]
  /\ existed = [p \in Procs |-> FALSE]

Init == ProgramInit /\ json_data = [type |-> "str"] /\ df = NotCalled

\* The locals of a run at the start of a fetch_all_sales_for_token call.
FetchLocals(p) ==
  /\ all_sales' = [all_sales EXCEPT ![p] = <<>>]
  /\ offset' = [offset EXCEPT ![p] = 0]
  /\ batch' = [batch EXCEPT ![p] = <<>>]
  /\ log' = [log EXCEPT ![p] = <<>>]

\* The process ends: its memory is gone, its output and exit status remain.
Exit(p, code, out, err) ==
  /\ pc' = [pc EXCEPT ![p] = "exited"]
  /\ exit_code' = [exit_code EXCEPT ![p] = code]
  /\ stdout' = [stdout EXCEPT ![p] = out]
  /\ error' = [error EXCEPT ![p] = err]
  /\ served' = [served EXCEPT ![p] = NotServed]
  /\ food_df' = [food_df EXCEPT ![p] = <<>>]
  /\ full_df' = [full_df EXCEPT ![p] = <<>>]
  /\ clean' = [clean EXCEPT ![p] = TRUE]
  /\ FetchLocals(p)

\* An uncaught exception: traceback, non-zero exit status.
Raise(p, err) == Exit(p, "nonzero", "none", err)

\* main() up to the first call of fetch_all_sales_for_token, against an
\* upstream holding the lists food and bar for the target date.  The
\* invocations in others have ended and are forgotten.
Start(p, food, bar, others) ==
  LET reset(f, new, init) ==
        [q \in Procs |-> IF q = p THEN new ELSE IF q \in others THEN init ELSE f[q]]
  IN
  /\ pc[p] \in {"idle", "exited"}
  /\ pc' = reset(pc, "fetch_food", "idle")
  /\ served' = [served EXCEPT ![p] = [Food |-> food, Bar |-> bar]]
  /\ existed' = reset(existed, file.exists, FALSE)
  /\ stdout' = reset(stdout, "none", "none")
  /\ exit_code' = reset(exit_code, "none", "none")
  /\ error' = reset(error, "none", "none")
  /\ food_df' = [food_df EXCEPT ![p] = <<>>]
  /\ full_df' = [full_df EXCEPT ![p] = <<>>]
  /\ clean' = [clean EXCEPT ![p] = TRUE]
  /\ FetchLocals(p)
  /\ UNCHANGED <<limit, file, json_data, df>>

\* A run that starts while no other run is in progress.
StartAlone(p) ==
  /\ \A q \in Procs : pc[q] \in {"idle", "exited"}
  /\ \E food \in UpstreamLists, bar \in UpstreamLists :
       Start(p, food, bar, Procs \ {p})

Source(p) == IF pc[p] \in {"fetch_food", "conv_food"} THEN "Food" ELSE "Bar"

\* The break test with <= in place of <.
LastPageInclusive(got, lim) == got = <<>> \/ Len(got) <= lim

\* The offset advanced by one record instead of one page.
NextOffsetByOne(off, lim) == off + 1

\* The two break tests of the loop: if not batch, and if len(batch) < limit.
LastPage(got, lim) == got = <<>> \/ Len(got) < lim

\* offset += limit
NextOffset(off, lim) == off + lim

\* One iteration of the while loop of fetch_all_sales_for_token: the GET, the
\* status check, the decoding of the body, and the two break tests.
FetchPage(p) ==
  /\ pc[p] \in {"fetch_food", "fetch_bar"}
  /\ UNCHANGED <<limit, file, existed, json_data, df>>
  /\ \E resp \in Responses :
       LET page == Slice(served[p][Source(p)], offset[p], limit)
           got == IF resp = "dict_nodata" THEN <<>> ELSE page
           after == IF pc[p] = "fetch_food" THEN "conv_food" ELSE "conv_bar"
       IN
       \/ /\ resp = "http_error"
          /\ Raise(p, "HTTPError")
       \/ /\ resp = "not_json"
          /\ Raise(p, "JSONDecodeError")
       \/ /\ resp = "number"
          /\ Raise(p, "TypeError")
       \/ /\ resp \in {"list", "dict", "dict_nodata"}
          /\ batch' = [batch EXCEPT ![p] = got]
          /\ log' = [log EXCEPT ![p] = Append(@, [offset |-> offset[p], got |-> Len(got)])]
          /\ clean' = [clean EXCEPT ![p] = @ /\ resp # "dict_nodata"]
          /\ all_sales' = [all_sales EXCEPT ![p] = @ \o got]
          /\ IF LastPage(got, limit)
             THEN pc' = [pc EXCEPT ![p] = after] /\ UNCHANGED offset
             ELSE /\ offset' = [offset EXCEPT ![p] = NextOffset(@, limit)]
                  /\ UNCHANGED pc
          /\ UNCHANGED <<served, food_df, full_df, stdout, exit_code, error>>

\* food_df = convert_sales_api_to_dataframe(food_json); food_df["Area"] = "Food";
\* then the call of fetch_all_sales_for_token for the Bar token begins.
ConvertFood(p) ==
  /\ pc[p] = "conv_food"
  /\ UNCHANGED <<limit, file, existed, json_data, df>>
  /\ LET r == convert_sales_api_to_dataframe(AsList(all_sales[p]))
     IN IF r.err # "none" THEN Raise(p, r.err)
        ELSE /\ food_df' = [food_df EXCEPT ![p] = Tag(r.rows, "Food")]
             /\ pc' = [pc EXCEPT ![p] = "fetch_bar"]
             /\ FetchLocals(p)
             /\ UNCHANGED <<served, clean, full_df, stdout, exit_code, error>>

\* bar_df = convert_sales_api_to_dataframe(bar_json); bar_df["Area"] = "Bar";
\* full_df = pd.concat([food_df, bar_df]).
ConvertBar(p) ==
  /\ pc[p] = "conv_bar"
  /\ UNCHANGED <<limit, file, existed, json_data, df>>
  /\ LET r == convert_sales_api_to_dataframe(AsList(all_sales[p]))
     IN IF r.err # "none" THEN Raise(p, r.err)
        ELSE /\ full_df' = [full_df EXCEPT ![p] = food_df[p] \o Tag(r.rows, "Bar")]
             /\ pc' = [pc EXCEPT ![p] = "check"]
             /\ UNCHANGED <<served, all_sales, offset, batch, log, clean,
                            food_df, stdout, exit_code, error>>

\* The orchestrator without the existence test: it always goes on to write.
CheckExistsIgnored(p) ==
  /\ pc[p] = "check"
  /\ pc' = [pc EXCEPT ![p] = "write"]
  /\ UNCHANGED <<limit, file, existed, json_data, df, served, all_sales, offset,
                 batch, log, clean, food_df, full_df, stdout, exit_code, error>>

\* The orchestrator that skips without printing the notice.
CheckExistsSilent(p) ==
  /\ pc[p] = "check"
  /\ UNCHANGED <<limit, file, existed, json_data, df>>
  /\ IF file.exists
     THEN Exit(p, "zero", "none", "none")
     ELSE /\ pc' = [pc EXCEPT ![p] = "write"]
          /\ UNCHANGED <<served, all_sales, offset, batch, log, clean,
                         food_df, full_df, stdout, exit_code, error>>

\* if filename.exists(): print the skip notice, and main() returns.
CheckExists(p) ==
  /\ pc[p] = "check"
  /\ UNCHANGED <<limit, file, existed, json_data, df>>
  /\ IF file.exists
     THEN Exit(p, "zero", "File already exists, skipping", "none")
     ELSE /\ pc' = [pc EXCEPT ![p] = "write"]
          /\ UNCHANGED <<served, all_sales, offset, batch, log, clean,
                         food_df, full_df, stdout, exit_code, error>>

\* The write as an exclusive create: an existing file is left as it is.
WriteCsvExclusive(p) ==
  /\ pc[p] = "write"
  /\ file' = IF file.exists THEN file
             ELSE [exists |-> TRUE, rows |-> to_csv(full_df[p])]
  /\ Exit(p, "zero", "Saved daily sales", "none")
  /\ UNCHANGED <<limit, existed, json_data, df>>

\* else: full_df.to_csv(filename, index=False), which creates or truncates
\* the file; print the saved notice, and main() returns.
WriteCsv(p) ==
  /\ pc[p] = "write"
  /\ file' = [exists |-> TRUE, rows |-> to_csv(full_df[p])]
  /\ Exit(p, "zero", "Saved daily sales", "none")
  /\ UNCHANGED <<limit, existed, json_data, df>>

Run(p) ==
  FetchPage(p) \/ ConvertFood(p) \/ ConvertBar(p) \/ CheckExists(p) \/ WriteCsv(p)

\* Runs of the program one after another.
Next == \E p \in Procs : StartAlone(p) \/ Run(p)

Spec == Init /\ [][Next]_vars

\* A run that starts whatever the other invocation is doing.
StartAny(p) ==
  \E food \in OverlapLists, bar \in OverlapLists : Start(p, food, bar, {})

\* Two invocations of the program for the same date, overlapping freely.
OverlapNext == \E p \in Procs : StartAny(p) \/ Run(p)

\* main() passes no limit: the page size is the default.
OverlapInit == Init /\ limit = default_limit

OverlapSpec == OverlapInit /\ [][OverlapNext]_vars

\* A request that has been issued is answered, and the loop goes on from it.
FairSpec == Spec /\ \A p \in Procs : WF_vars(FetchPage(p))

\* ------------------------------------------------- the flattener on its own
\* A direct call convert_sales_api_to_dataframe(json_data).
FlattenInit ==
  /\ ProgramInit
  /\ limit = default_limit
  /\ df = NotCalled
  /\ \/ \E shapes \in ShapeLists, form \in {"list", "dict"} :
          json_data = IF form = "list" THEN AsList(SalesOf(shapes))
                      ELSE AsDict(SalesOf(shapes))
     \/ json_data \in {[type |-> "dict"], [type |-> "str"]}

Flatten ==
  /\ df = NotCalled
  /\ df' = convert_sales_api_to_dataframe(json_data)
  /\ UNCHANGED <<limit, served, file, pc, all_sales, offset, batch, log, clean,
                 food_df, full_df, stdout, exit_code, error, existed, json_data>>

FlattenSpec == FlattenInit /\ [][Flatten]_vars

\* ------------------------------------------------------ claims: flattener
Called == df # NotCalled

IsSalesInput ==
  json_data.type = "list" \/ (json_data.type = "dict" /\ "data" \in DOMAIN json_data)

InputSales ==
  IF json_data.type = "list" THEN json_data.items
  ELSE IF "data" \in DOMAIN json_data THEN json_data.data
  ELSE <<>>

ItemsAt(i) == InputSales[i].sales_details.sales_items

PaymentsAt(i) ==
  IF "sales_payments" \in DOMAIN InputSales[i] THEN InputSales[i].sales_payments
  ELSE <<>>

HasAmount(pay) == "payment_total" \in DOMAIN pay.v

IsNumber(x) == x.t \in {"num", "numstr"}

\* Some sale of the input has a line item.
SomeItem == \E i \in 1..Len(InputSales) : ItemsAt(i) # <<>>

\* Every timestamp of the input is a timestamp or missing.
TimestampsParse ==
  \A i \in 1..Len(InputSales) :
    /\ InputSales[i].sales_date_time # Text
    /\ \A j \in 1..Len(ItemsAt(i)) :
         "created_at" \in DOMAIN ItemsAt(i)[j] => ItemsAt(i)[j].created_at # Text

\* Every payment amount that is present is a number.
AmountsParse ==
  \A i \in 1..Len(InputSales) : \A k \in 1..Len(PaymentsAt(i)) :
    HasAmount(PaymentsAt(i)[k]) => IsNumber(PaymentsAt(i)[k].v.payment_total)

\* The rows of the result that carry the id of the i-th sale.
RowsOfSale(i) == {r \in 1..Len(df.rows) : df.rows[r]["sale_id"] = Num(i)}

\* The r-th row of the result comes from the j-th item of the i-th sale.
RowFrom(r, i, j) ==
  /\ df.rows[r]["sale_id"] = Num(i)
  /\ df.rows[r]["item_id"] = ItemsAt(i)[j].id

\* C4 (as claimed): for a non-empty list of sales with distinct ids (and
\* parsable timestamps and amounts), the flatten does not fail and each sale
\* with N line items is referenced by exactly N rows, also when every sale of
\* the list has no line items.
C4_RowCountPerSale ==
  (Called /\ IsSalesInput /\ InputSales # <<>> /\ TimestampsParse /\ AmountsParse)
    => /\ df.err = "none"
       /\ \A i \in 1..Len(InputSales) :
            Cardinality(RowsOfSale(i)) = Len(ItemsAt(i))

\* C5 (as claimed): when a field of the numeric list, or a payment amount that
\* feeds payment_total, holds a non-numeric string, the flatten completes and
\* the item's field is null in the output.  (Inputs that produce rows and
\* whose timestamps parse.)
C5_NumericCoercionNeverRaises ==
  (Called /\ IsSalesInput /\ SomeItem /\ TimestampsParse
     /\ \E i \in 1..Len(InputSales) :
          \/ \E j \in 1..Len(ItemsAt(i)), c \in numeric_item_columns :
               ItemsAt(i)[j][c] = Text
          \/ \E k \in 1..Len(PaymentsAt(i)) :
               HasAmount(PaymentsAt(i)[k]) /\ PaymentsAt(i)[k].v.payment_total = Text)
    => /\ df.err = "none"
       /\ \A i \in 1..Len(InputSales) :
            \A j \in 1..Len(ItemsAt(i)), c \in numeric_item_columns :
              ItemsAt(i)[j][c] = Text
                => \E r \in 1..Len(df.rows) : RowFrom(r, i, j) /\ df.rows[r][c] = NaN

\* C6 (as claimed): when a sale's sales_date_time or an item's created_at
\* holds a string that is no timestamp, the flatten completes and that field
\* is null in the output.  (Inputs whose payment amounts parse.)
C6_BadTimestampsBecomeNull ==
  (Called /\ IsSalesInput /\ AmountsParse
     /\ \E i \in 1..Len(InputSales) : \E j \in 1..Len(ItemsAt(i)) :
          \/ InputSales[i].sales_date_time = Text
          \/ Get(ItemsAt(i)[j], "created_at", Null) = Text)
    => /\ df.err = "none"
       /\ \A i \in 1..Len(InputSales) : \A j \in 1..Len(ItemsAt(i)) :
            \E r \in 1..Len(df.rows) :
              /\ RowFrom(r, i, j)
              /\ InputSales[i].sales_date_time = Text
                   => df.rows[r]["sales_date_time"] = NaT
              /\ Get(ItemsAt(i)[j], "created_at", Null) = Text
                   => df.rows[r]["created_at"] = NaT

\* The sum of the amounts of the first n payment methods, a method without an
\* amount counting as 0.
RECURSIVE AmountSum(_, _)
AmountSum(pays, n) ==
  IF n = 0 THEN 0
  ELSE AmountSum(pays, n - 1)
       + (IF HasAmount(pays[n]) THEN pays[n].v.payment_total.v ELSE 0)

\* C7: every row's payment_total is the sum of the amounts of all payment
\* methods of the sale it comes from, a method without an amount counting as
\* 0 and a sale without sales_payments having the total 0; and missing
\* amounts do not make the flatten fail.
C7_PaymentTotal ==
  Called =>
    /\ \A r \in 1..Len(df.rows) :
         LET i == df.rows[r]["sale_id"].v
         IN df.rows[r]["payment_total"]
              = Float(AmountSum(PaymentsAt(i), Len(PaymentsAt(i))))
    /\ (IsSalesInput /\ SomeItem /\ TimestampsParse /\ AmountsParse)
         => df.err = "none" /\ df.rows # <<>>

\* C7 witness: the flatten has produced a row from a sale one of whose two
\* payment methods has no amount, and a row from a sale without
\* sales_payments.
C7_Witness ==
  /\ Called /\ df.err = "none"
  /\ \E r \in 1..Len(df.rows) :
       LET i == df.rows[r]["sale_id"].v
       IN /\ Len(PaymentsAt(i)) = 2
          /\ ~HasAmount(PaymentsAt(i)[2])
          /\ df.rows[r]["payment_total"] = Float(700)
  /\ \E r \in 1..Len(df.rows) :
       /\ "sales_payments" \notin DOMAIN InputSales[df.rows[r]["sale_id"].v]
       /\ df.rows[r]["payment_total"] = Float(0)

\* ------------------------------------------------------- claims: program
Fetching(p) == pc[p] \in {"fetch_food", "fetch_bar"}
Fetched(p) == pc[p] \in {"conv_food", "conv_bar"}
Exited(p) == pc[p] = "exited"
Skipped(p) ==
  stdout[p] = "File already exists, skipping" /\ exit_code[p] = "zero"
Saved(p) == stdout[p] = "Saved daily sales" /\ exit_code[p] = "zero"

\* C1: in runs that do not overlap, once the file exists no step changes it.
C1_WriteOnce == [][file.exists => file' = file]_vars

\* C1 witness: the file exists and a later run, having fetched and flattened
\* other data than the file holds, stands before the existence test.
C1_Witness ==
  \E p \in Procs :
    /\ pc[p] = "check" /\ existed[p] /\ file.exists
    /\ to_csv(full_df[p]) # file.rows

\* The Food rows followed by the Bar rows of everything the upstream holds.
AllRecords(p) ==
  Tag(convert_sales_api_to_dataframe(AsList(served[p].Food)).rows, "Food")
  \o Tag(convert_sales_api_to_dataframe(AsList(served[p].Bar)).rows, "Bar")

\* C2 (as claimed): a run reaches the write only when no source has failed
\* (no error status, no malformed payload, no empty result), and what it is
\* about to write is the Food records followed by the Bar records.
C2_NoPartialOutput ==
  \A p \in Procs : pc[p] = "write" => full_df[p] = AllRecords(p)

\* C3 (as claimed): a run for a date whose file exists when the run starts
\* ends with the skip notice and exit status zero, whatever the upstream does.
C3_AlwaysSkips ==
  \A p \in Procs : (Exited(p) /\ existed[p]) => Skipped(p)

\* C3 (amended): a run for a date whose file exists when the run starts ends
\* with the skip notice and exit status zero if no fetch or flatten raised,
\* and with the uncaught exception (no notice, non-zero status) otherwise.
C3_SkipsUnlessRaised ==
  \A p \in Procs :
    (Exited(p) /\ existed[p])
      => IF error[p] = "none" THEN Skipped(p)
         ELSE stdout[p] = "none" /\ exit_code[p] = "nonzero"

\* C3 witness: both outcomes of such a run are seen: here the skip.
C3_Witness == \E p \in Procs : Exited(p) /\ existed[p] /\ Skipped(p)

\* The page lengths of all requests of the current fetch but the last.
EarlierPagesFull(p) ==
  \A i \in 1..(Len(log[p]) - 1) : log[p][i].got = limit

LastGot(p) == log[p][Len(log[p])].got

\* C8: a request is followed by another exactly when its page was full (the
\* loop goes on after every full page and stops at the first page that is
\* empty or short), and every fetch ends.
C8_StopRuleAndTermination ==
  /\ [](\A p \in Procs :
          /\ EarlierPagesFull(p)
          /\ (Fetching(p) /\ log[p] # <<>>) => LastGot(p) = limit
          /\ Fetched(p) => (log[p] # <<>> /\ LastGot(p) < limit))
  /\ \A p \in Procs : (pc[p] = "fetch_food") ~> (pc[p] # "fetch_food")
  /\ \A p \in Procs : (pc[p] = "fetch_bar") ~> (pc[p] # "fetch_bar")

\* C8 witness: the upstream holds an exact multiple of limit, and the fetch
\* has ended on the empty page that followed the last full one.
C8_Witness ==
  \E p \in Procs :
    /\ Fetched(p) /\ clean[p]
    /\ Len(served[p][Source(p)]) = 2 * limit
    /\ Len(log[p]) = 3 /\ LastGot(p) = 0

\* C10: against an upstream that answers each request with the slice
\* [offset, offset + limit) of its M records, the fetch requests the offsets
\* 0, limit, 2 * limit, ..., makes M \div limit + 1 requests, and returns the
\* M records once each and in upstream order.
C10_PaginationComplete ==
  \A p \in Procs :
    (Fetched(p) /\ clean[p]) =>
      /\ all_sales[p] = served[p][Source(p)]
      /\ Len(log[p]) = (Len(served[p][Source(p)]) \div limit) + 1
      /\ \A i \in 1..Len(log[p]) : log[p][i].offset = (i - 1) * limit

\* C10 witness: a fetch of several pages that ended on a short, non-empty page.
C10_Witness ==
  \E p \in Procs :
    /\ Fetched(p) /\ clean[p]
    /\ Len(log[p]) >= 2 /\ LastGot(p) > 0
    /\ Len(all_sales[p]) = MaxRecords

\* C9: an invocation that has passed the existence test writes its own frame
\* whatever the file holds by then: nothing between the test and the write
\* looks at the file again.
C9_WriteAfterCheckIsUnconditional ==
  [][\A p \in Procs :
       (pc[p] = "write" /\ pc'[p] = "exited")
         => file' = [exists |-> TRUE, rows |-> to_csv(full_df[p])]]_vars

\* C9 witness: both invocations passed the test while the file was absent;
\* one has written and exited, and the other is about to write other rows
\* over the file.
C9_Witness ==
  \E p \in Procs, q \in Procs :
    /\ p # q
    /\ ~existed[p] /\ ~existed[q]
    /\ Exited(q) /\ Saved(q)
    /\ pc[p] = "write" /\ file.exists
    /\ to_csv(full_df[p]) # file.rows

====
